---- MODULE Spec2Model ----
(***************************************************************************)
(* Model of MobileScout's off-track interval accounting                    *)
(* (computeOffTrack in the Endurance tab, app/(tabs)/endurance.tsx).       *)
(*                                                                         *)
(* Representation.                                                         *)
(*  - A JavaScript string that the code trims (a car number) is a sequence *)
(*    of one-character strings, so that trim() is computed, not assumed.   *)
(*  - A timestamp is the ISO text the app stores (toISOString) or a text   *)
(*    that Date cannot parse.  The modelled clock runs on whole minutes of *)
(*    1970-01-01T00:0m:00.000Z, so every difference of two instants is a   *)
(*    multiple of 1000 ms and the code's "/ 1000" is exact.                *)
(*  - A Date object is [nan, time]; null is the record Null.               *)
(***************************************************************************)
EXTENDS Integers, Sequences, FiniteSets, TLC

\* ---------------------------------------------------------------- bounds

\* Longest pit log handed to computeOffTrack.
MaxLog == 3
\* Latest minute of the modelled clock (instants 0 .. MaxTime minutes).
MaxTime == 2

\* ------------------------------------------------------- strings and dates

Null == [null |-> TRUE]

WhiteSpace == {" ", "\t", "\n"}

RECURSIVE trimStart(_)
trimStart(s) ==
    IF s = <<>> THEN <<>>
    ELSE IF Head(s) \in WhiteSpace THEN trimStart(Tail(s)) ELSE s

RECURSIVE trimEnd(_)
trimEnd(s) ==
    IF s = <<>> THEN <<>>
    ELSE IF s[Len(s)] \in WhiteSpace THEN trimEnd(SubSeq(s, 1, Len(s) - 1)) ELSE s

\* String.prototype.trim
trim(s) == trimEnd(trimStart(s))

Digit == <<"0", "1", "2", "3", "4", "5", "6", "7", "8", "9">>

\* Date.prototype.toISOString for the instant ms (a whole minute below 10).
toISOString(ms) == "1970-01-01T00:0" \o Digit[(ms \div 60000) + 1] \o ":00.000Z"

\* The instants of the modelled clock, in milliseconds since the epoch.
Instants == {m * 60000 : m \in 0 .. MaxTime}

IsoTable == [ms \in Instants |-> toISOString(ms)]

\* new Date(ts): the instant an ISO text denotes, an Invalid Date otherwise.
NewDate(ts) ==
    IF \E ms \in Instants : IsoTable[ms] = ts
    THEN [nan |-> FALSE, time |-> CHOOSE ms \in Instants : IsoTable[ms] = ts]
    ELSE [nan |-> TRUE, time |-> 0]

\* A parse that turns an unreadable text into the epoch instead of null.
parseISOEpochFallback(ts) ==
    LET d == NewDate(ts) IN [nan |-> FALSE, time |-> d.time]

\* parseISO: a Date, or null when the text is no valid date.
parseISO(ts) ==
    LET d == NewDate(ts) IN IF d.nan THEN Null ELSE d

\* ----------------------------------------------------------- the pit log

\* Direction = 'in' | 'out'
Direction == {"in", "out"}

\* Pit: one pit log entry (station and sessionId are carried for display
\* only and take no part in the computation).
Pit(carNumber, direction, timestamp) ==
    [carNumber |-> carNumber, direction |-> direction, timestamp |-> timestamp]

Max(a, b) == IF a >= b THEN a ELSE b

\* A filter that was left out: every vehicle's events pass.
matchesAnyCar(l, car) == TRUE

\* logs.filter(l => l.carNumber.trim() === car)
matchesCar(l, car) == trim(l.carNumber) = car

\* .map(l => ({ ...l, dt: parseISO(l.timestamp) }))
withDt(l) ==
    [carNumber |-> l.carNumber, direction |-> l.direction,
     timestamp |-> l.timestamp, dt |-> parseISO(l.timestamp)]

RECURSIVE mapWithDt(_)
mapWithDt(ls) ==
    IF ls = <<>> THEN <<>> ELSE <<withDt(Head(ls))>> \o mapWithDt(Tail(ls))

\* The events of the car that carry a valid date, in log order.
carEvents(logs, car) ==
    SelectSeq(mapWithDt(SelectSeq(logs, LAMBDA l : matchesCar(l, car))),
              LAMBDA x : x.dt # Null)

\* Array.prototype.sort with (a, b) => a.dt.getTime() - b.dt.getTime():
\* ascending by instant, stable (equal instants keep their log order).
RECURSIVE insertByTime(_, _)
insertByTime(sorted, e) ==
    IF sorted = <<>> THEN <<e>>
    ELSE IF Head(sorted).dt.time - e.dt.time > 0
         THEN <<e>> \o sorted
         ELSE <<Head(sorted)>> \o insertByTime(Tail(sorted), e)

\* A sort whose comparator is written the wrong way round (b - a).
RECURSIVE insertByTimeDescending(_, _)
insertByTimeDescending(sorted, e) ==
    IF sorted = <<>> THEN <<e>>
    ELSE IF e.dt.time - Head(sorted).dt.time > 0
         THEN <<e>> \o sorted
         ELSE <<Head(sorted)>> \o insertByTimeDescending(Tail(sorted), e)

RECURSIVE sortEventsDescending(_)
sortEventsDescending(events) ==
    IF events = <<>> THEN <<>>
    ELSE insertByTimeDescending(
             sortEventsDescending(SubSeq(events, 1, Len(events) - 1)),
             events[Len(events)])

RECURSIVE sortEvents(_)
sortEvents(events) ==
    IF events = <<>> THEN <<>>
    ELSE insertByTime(sortEvents(SubSeq(events, 1, Len(events) - 1)),
                      events[Len(events)])

\* The locals of computeOffTrack before the loop.
walkInit == [openIn |-> Null, total |-> 0, lastIn |-> Null, lastOut |-> Null]

\* A loop body in which an 'in' keeps the interval that is already open.
walkStepKeepFirstIn(st, e) ==
    IF e.direction = "in"
    THEN [st EXCEPT !.openIn = IF st.openIn = Null THEN e.dt ELSE st.openIn,
                    !.lastIn = e.dt]
    ELSE IF e.direction = "out"
    THEN IF st.openIn # Null /\ e.dt.time >= st.openIn.time
         THEN [st EXCEPT !.lastOut = e.dt,
                         !.total = st.total + (e.dt.time - st.openIn.time) \div 1000,
                         !.openIn = Null]
         ELSE [st EXCEPT !.lastOut = e.dt]
    ELSE st

\* A loop body in which an 'out' is charged from the last 'out' when no
\* 'in' is open.
walkStepOrphanCharged(st, e) ==
    IF e.direction = "in"
    THEN [st EXCEPT !.openIn = e.dt, !.lastIn = e.dt]
    ELSE IF e.direction = "out"
    THEN IF st.openIn # Null /\ e.dt.time >= st.openIn.time
         THEN [st EXCEPT !.lastOut = e.dt,
                         !.total = st.total + (e.dt.time - st.openIn.time) \div 1000,
                         !.openIn = Null]
         ELSE IF st.lastOut # Null
         THEN [st EXCEPT !.lastOut = e.dt,
                         !.total = st.total + (e.dt.time - st.lastOut.time) \div 1000]
         ELSE [st EXCEPT !.lastOut = e.dt]
    ELSE st

\* A loop body that closes an interval only on a strictly later 'out'.
walkStepStrictOut(st, e) ==
    IF e.direction = "in"
    THEN [st EXCEPT !.openIn = e.dt, !.lastIn = e.dt]
    ELSE IF e.direction = "out"
    THEN IF st.openIn # Null /\ e.dt.time > st.openIn.time
         THEN [st EXCEPT !.lastOut = e.dt,
                         !.total = st.total + (e.dt.time - st.openIn.time) \div 1000,
                         !.openIn = Null]
         ELSE [st EXCEPT !.lastOut = e.dt]
    ELSE st

\* A loop body that forgets to clear the open 'in' when an 'out' closes it.
walkStepNoClear(st, e) ==
    IF e.direction = "in"
    THEN [st EXCEPT !.openIn = e.dt, !.lastIn = e.dt]
    ELSE IF e.direction = "out"
    THEN IF st.openIn # Null /\ e.dt.time >= st.openIn.time
         THEN [st EXCEPT !.lastOut = e.dt,
                         !.total = st.total + (e.dt.time - st.openIn.time) \div 1000]
         ELSE [st EXCEPT !.lastOut = e.dt]
    ELSE st

\* One turn of "for (const e of events)".
walkStep(st, e) ==
    IF e.direction = "in"
    THEN [st EXCEPT !.openIn = e.dt, !.lastIn = e.dt]
    ELSE IF e.direction = "out"
    THEN IF st.openIn # Null /\ e.dt.time >= st.openIn.time
         THEN [st EXCEPT !.lastOut = e.dt,
                         !.total = st.total + (e.dt.time - st.openIn.time) \div 1000,
                         !.openIn = Null]
         ELSE [st EXCEPT !.lastOut = e.dt]
    ELSE st

\* The locals after the first k turns of the loop over events.
RECURSIVE walk(_, _)
walk(events, k) ==
    IF k = 0 THEN walkInit ELSE walkStep(walk(events, k - 1), events[k])

\* An ending that does not clamp the open interval at zero.
finishUnclamped(st, nowMs) ==
    LET current == IF st.openIn # Null
                   THEN (nowMs - st.openIn.time) \div 1000 ELSE 0
    IN  [status |-> IF st.openIn # Null THEN "OFF TRACK" ELSE "ON TRACK",
         currentOffSeconds |-> current,
         totalOffSeconds |-> st.total + current,
         lastIn |-> st.lastIn,
         lastOut |-> st.lastOut]

\* An ending that measures the open interval the wrong way round.
finishSwapped(st, nowMs) ==
    LET current == IF st.openIn # Null
                   THEN Max(0, (st.openIn.time - nowMs) \div 1000) ELSE 0
    IN  [status |-> IF st.openIn # Null THEN "OFF TRACK" ELSE "ON TRACK",
         currentOffSeconds |-> current,
         totalOffSeconds |-> st.total + current,
         lastIn |-> st.lastIn,
         lastOut |-> st.lastOut]

\* The open interval up to nowMs, and the returned object.
finish(st, nowMs) ==
    LET current == IF st.openIn # Null
                   THEN Max(0, (nowMs - st.openIn.time) \div 1000) ELSE 0
    IN  [status |-> IF st.openIn # Null THEN "OFF TRACK" ELSE "ON TRACK",
         currentOffSeconds |-> current,
         totalOffSeconds |-> st.total + current,
         lastIn |-> st.lastIn,
         lastOut |-> st.lastOut]

\* The value returned for a blank car number.  Its status is the dash the
\* screen shows for "no car" (an em dash in the source, written "--" here).
neutral ==
    [status |-> "--", currentOffSeconds |-> 0, totalOffSeconds |-> 0,
     lastIn |-> Null, lastOut |-> Null]

\* The sorted events computeOffTrack walks for a (trimmed) car.
sortedEvents(logs, car) == sortEvents(carEvents(logs, car))

\* A computeOffTrack without the blank-identifier exit.
computeOffTrackNoGuard(logs, carNumber, nowMs) ==
    LET car == trim(carNumber)
        events == sortedEvents(logs, car)
    IN  finish(walk(events, Len(events)), nowMs)

computeOffTrack(logs, carNumber, nowMs) ==
    LET car == trim(carNumber)
    IN  IF car = <<>> THEN neutral
        ELSE LET events == sortedEvents(logs, car)
             IN  finish(walk(events, Len(events)), nowMs)

\* ------------------------------------------------- the call, as a machine

VARIABLES logs, carNumber, nowMs, off, pc

\* The Endurance screen's own state: the car number being typed, the car
\* looked up, and the device clock (Date.now()).
VARIABLES car, lookupCar, clock

enduranceVars == <<car, lookupCar, clock>>

\* The Endurance screen's state while another part of the program is studied.
EnduranceIdle == car = <<>> /\ lookupCar = <<>> /\ clock = 0

\* A ledger of seen cars grown by repeated calls of one of the two
\* updateSeenCars helpers: the helper in use, the ledger, the arguments and
\* the result of the last call, the number of calls made, and every record
\* of a short key that some ledger has held so far.
VARIABLES helper, ledger, ledgerBefore, observed, stamp, added, calls, everSeen

seenVars == <<helper, ledger, ledgerBefore, observed, stamp, added, calls, everSeen>>

SeenIdle ==
    /\ helper = "none"
    /\ ledger = <<>>
    /\ ledgerBefore = <<>>
    /\ observed = <<>>
    /\ stamp = ""
    /\ added = 0
    /\ calls = 0
    /\ everSeen = {}

\* The Dynamic screen's state (it shares nowMs and clock with the Endurance
\* screen's): the useState values of DynamicTab, and the leaderboard fetches
\* under way, those of the poll now running (inflight) and those of polls
\* already cleaned up (cancelledInflight); alert is the dialog that
\* Alert.alert has put on the screen, if any. beforePlus remembers the
\* completions and the cars in line that a completion + found, for as long
\* as nothing has happened since but the passing of time.
VARIABLES isOnline, eventName, lineLength, samples, completions,
          useSAERunRate, saeSeen, saeStatus, saeLastUpdate, manualStartTs,
          inflight, cancelledInflight, alert, beforePlus

dynamicVars == <<isOnline, eventName, lineLength, samples, completions,
                 useSAERunRate, saeSeen, saeStatus, saeLastUpdate,
                 manualStartTs, inflight, cancelledInflight, alert, beforePlus>>

DynamicIdle ==
    /\ isOnline = TRUE
    /\ eventName = ""
    /\ lineLength = "0"
    /\ samples = <<>>
    /\ completions = <<>>
    /\ useSAERunRate = TRUE
    /\ saeSeen = <<>>
    /\ saeStatus = "SAE idle"
    /\ saeLastUpdate = Null
    /\ manualStartTs = Null
    /\ inflight = 0
    /\ cancelledInflight = 0
    /\ alert = Null
    /\ beforePlus = Null

\* The pure helpers of the Dynamic screen studied on their own: the result
\* of hasRecentNewCarSeen; the rows of a leaderboard, the page text written
\* from them and given to parseCarsWithResults, and the cars it returned.
VARIABLES recent, rows, html, carsFound

helperVars == <<recent, rows, html, carsFound>>

HelpersIdle == recent = FALSE /\ rows = <<>> /\ html = <<>> /\ carsFound = <<>>

vars == <<logs, carNumber, nowMs, off, pc, enduranceVars, seenVars, dynamicVars,
          helperVars>>

\* What the Endurance screen never touches.
notEndurance == <<carNumber, pc, seenVars, dynamicVars, helperVars>>

\* What the ledger helpers never touch.
notSeen == <<logs, carNumber, nowMs, off, pc, enduranceVars, dynamicVars, helperVars>>

\* Car numbers as they stand in a log: one that needs trimming, and another
\* vehicle.
LogCars == {<<" ", "4">>, <<"7">>}

\* Car numbers looked up: one that needs trimming, the empty text and a
\* text of white space only.
LookupCars == {<<"4", " ">>, <<>>, <<" ", "\t">>}

\* Timestamps as they stand in a log: the ISO texts of the clock, and a text
\* that is no date.
Timestamps == {IsoTable[ms] : ms \in Instants} \cup {""}

Entries ==
    {Pit(c, d, ts) : c \in LogCars, d \in Direction, ts \in Timestamps}

Logs == UNION {[1 .. n -> Entries] : n \in 0 .. MaxLog}

\* Before the call: any log, any looked-up car, any clock value.
InitOffTrack ==
    /\ logs \in Logs
    /\ carNumber \in LookupCars
    /\ nowMs \in Instants
    /\ off = Null
    /\ pc = "call"
    /\ EnduranceIdle
    /\ SeenIdle
    /\ DynamicIdle
    /\ HelpersIdle

\* off = computeOffTrack(logs, carNumber, nowMs)
Compute ==
    /\ pc = "call"
    /\ off' = computeOffTrack(logs, carNumber, nowMs)
    /\ pc' = "done"
    /\ UNCHANGED <<logs, carNumber, nowMs>>
    /\ UNCHANGED <<enduranceVars, seenVars, dynamicVars, helperVars>>

NextOffTrack == Compute

SpecOffTrack == InitOffTrack /\ [][NextOffTrack]_vars

\* --------------------------------------- the vocabulary of the statements
\* What the statements below say about a log is defined here from the log
\* itself, not from the locals of computeOffTrack.

\* The texts that denote an instant of the clock.
Parseable(ts) == \E ms \in Instants : toISOString(ms) = ts

InstantOf(ts) == CHOOSE ms \in Instants : toISOString(ms) = ts

\* The entry belongs to vehicle v (both sides trimmed).
OwnEntry(l, v) == trim(l.carNumber) = trim(v)

RECURSIVE Stamped(_)
Stamped(ls) ==
    IF ls = <<>> THEN <<>>
    ELSE <<[direction |-> Head(ls).direction, t |-> InstantOf(Head(ls).timestamp)]>>
         \o Stamped(Tail(ls))

\* The dated events of vehicle v, in log order.
OwnDated(ls, v) ==
    Stamped(SelectSeq(ls, LAMBDA l : OwnEntry(l, v) /\ Parseable(l.timestamp)))

\* Index of the first event of es with the least instant.
FirstEarliest(es) ==
    CHOOSE i \in 1 .. Len(es) :
        /\ \A j \in 1 .. Len(es) : es[i].t <= es[j].t
        /\ \A j \in 1 .. (i - 1) : es[j].t > es[i].t

RemoveAt(es, i) == SubSeq(es, 1, i - 1) \o SubSeq(es, i + 1, Len(es))

\* es in chronological order, simultaneous events in their log order.
RECURSIVE Chronological(_)
Chronological(es) ==
    IF es = <<>> THEN <<>>
    ELSE LET i == FirstEarliest(es)
         IN  <<es[i]>> \o Chronological(RemoveAt(es, i))

\* The chronological events of the looked-up vehicle.
Chron == Chronological(OwnDated(logs, carNumber))

Blank == trim(carNumber) = <<>>

Done == pc = "done"

\* IN, OUT, IN, OUT, ... starting with IN.
Alternating(es) ==
    \A i \in 1 .. Len(es) :
        es[i].direction = (IF i % 2 = 1 THEN "in" ELSE "out")

\* Number of INs minus number of OUTs among the first k events.
RECURSIVE Depth(_, _)
Depth(es, k) ==
    IF k = 0 THEN 0
    ELSE Depth(es, k - 1) + (IF es[k].direction = "in" THEN 1 ELSE -1)

\* Every OUT answers an earlier IN and no IN is left open.
Balanced(es) ==
    /\ \A k \in 1 .. Len(es) : Depth(es, k) >= 0
    /\ Depth(es, Len(es)) = 0

\* Sum of (OUT_i - IN_i) / 1000 over the closed pairs of an alternating es.
RECURSIVE ClosedSeconds(_, _)
ClosedSeconds(es, k) ==
    IF k < 2 THEN 0
    ELSE ClosedSeconds(es, k - 2) + (es[k].t - es[k - 1].t) \div 1000

Seconds(fromMs, toMs) == (toMs - fromMs) \div 1000

\* ------------------------------------------------------------ statements

\* The chronologically last event of the looked-up vehicle is an IN.
EndsWithIn == ~Blank /\ Chron # <<>> /\ Chron[Len(Chron)].direction = "in"

LastT == Chron[Len(Chron)].t

\* C1 as stated: when the chronologically last event of the looked-up
\* vehicle is an IN at time T, then for every now the status is OFF TRACK,
\* currentOffSeconds equals now - T and totalOffSeconds >= currentOffSeconds.
C1_AsStated ==
    (Done /\ EndsWithIn) =>
        /\ off.status = "OFF TRACK"
        /\ off.currentOffSeconds = Seconds(LastT, nowMs)
        /\ off.totalOffSeconds >= off.currentOffSeconds

\* C1, amended: when the chronologically last event of the looked-up
\* vehicle is an IN at time T, then for every now the status is OFF TRACK,
\* currentOffSeconds equals max(0, now - T) (zero when now is before T) and
\* totalOffSeconds >= currentOffSeconds.
C1_OpenInterval ==
    (Done /\ EndsWithIn) =>
        /\ off.status = "OFF TRACK"
        /\ off.currentOffSeconds = Max(0, Seconds(LastT, nowMs))
        /\ off.totalOffSeconds >= off.currentOffSeconds

\* An open interval after a closed one, with now past the open IN.
C1_Witness ==
    /\ Done /\ EndsWithIn
    /\ Len(Chron) = 3
    /\ nowMs > LastT
    /\ off.currentOffSeconds > 0
    /\ off.totalOffSeconds > off.currentOffSeconds

\* C2: when the looked-up vehicle's events form balanced IN/OUT pairs with
\* no IN left open, the status is ON TRACK and currentOffSeconds is 0, for
\* every now.
C2_ClosedLog ==
    (Done /\ ~Blank /\ Balanced(Chron)) =>
        /\ off.status = "ON TRACK"
        /\ off.currentOffSeconds = 0

\* A closed pair in a log that also holds a third entry, looked up before
\* the pair closed on the clock.
C2_Witness ==
    /\ Done /\ ~Blank
    /\ Len(logs) = 3
    /\ Len(Chron) = 2 /\ Balanced(Chron)
    /\ Chron[1].t < Chron[2].t
    /\ nowMs < Chron[2].t
    /\ off.status = "ON TRACK"

\* C3: for events that strictly alternate IN, OUT, IN, OUT ... starting
\* with IN, totalOffSeconds is the sum of (OUT_i - IN_i) over the closed
\* pairs, plus max(0, now - IN_last) when the sequence ends with an
\* unmatched IN.
C3_Total ==
    (Done /\ ~Blank /\ Alternating(Chron)) =>
        off.totalOffSeconds =
            IF Len(Chron) % 2 = 0
            THEN ClosedSeconds(Chron, Len(Chron))
            ELSE ClosedSeconds(Chron, Len(Chron) - 1)
                 + Max(0, Seconds(LastT, nowMs))

\* IN at 0 s, OUT at 60 s, IN at 60 s, now 120 s: 60 closed plus 60 open.
C3_Witness ==
    /\ Done /\ ~Blank /\ Alternating(Chron)
    /\ Len(Chron) = 3
    /\ Chron[1].t = 0 /\ Chron[2].t = 60000 /\ Chron[3].t = 60000
    /\ nowMs = 120000
    /\ off.totalOffSeconds = 120

\* The locals of the loop after the first k chronological events.
Locals(k) == walk(sortedEvents(logs, trim(carNumber)), k)

\* C4: two INs with no OUT between them: the later IN becomes the start of
\* the open interval and the total is untouched by it; for IN at t1, IN at
\* t2, OUT at t3 with t1 < t2 < t3 the total is t3 - t2 and lastIn is t2.
C4_DoubleIn ==
    (Done /\ ~Blank) =>
        /\ \A k \in 1 .. (Len(Chron) - 1) :
               (Chron[k].direction = "in" /\ Chron[k + 1].direction = "in") =>
                   /\ Locals(k).openIn # Null
                   /\ Locals(k + 1).openIn # Null
                   /\ Locals(k + 1).openIn.time = Chron[k + 1].t
                   /\ Locals(k + 1).lastIn.time = Chron[k + 1].t
                   /\ Locals(k + 1).total = Locals(k).total
        /\ ( /\ Len(Chron) = 3
             /\ Chron[1].direction = "in" /\ Chron[2].direction = "in"
             /\ Chron[3].direction = "out"
             /\ Chron[1].t < Chron[2].t /\ Chron[2].t < Chron[3].t )
           => /\ off.totalOffSeconds = Seconds(Chron[2].t, Chron[3].t)
              /\ off.lastIn # Null
              /\ off.lastIn.time = Chron[2].t
              /\ off.status = "ON TRACK"

\* IN at 0 s, IN at 60 s, OUT at 120 s: the total is 60, not 120.
C4_Witness ==
    /\ Done /\ ~Blank
    /\ Len(Chron) = 3
    /\ Chron[1].direction = "in" /\ Chron[2].direction = "in"
    /\ Chron[3].direction = "out"
    /\ Chron[1].t = 0 /\ Chron[2].t = 60000 /\ Chron[3].t = 120000
    /\ off.totalOffSeconds = 60

\* The k-th chronological event is an OUT met while no IN is open: it is
\* the first event, or it follows another OUT.
OrphanOut(k) ==
    /\ k \in 1 .. Len(Chron)
    /\ Chron[k].direction = "out"
    /\ (k = 1 \/ Chron[k - 1].direction = "out")

\* C5: an OUT processed while no IN is open adds nothing to the total,
\* leaves the open/closed status as it was and only updates lastOut; a log
\* whose last event is such an OUT is answered without error.
C5_OrphanOut ==
    (Done /\ ~Blank) =>
        /\ \A k \in 1 .. Len(Chron) :
               OrphanOut(k) =>
                   /\ Locals(k - 1).openIn = Null
                   /\ Locals(k) = [Locals(k - 1) EXCEPT
                                       !.lastOut = [nan |-> FALSE, time |-> Chron[k].t]]
        /\ (Chron # <<>> /\ OrphanOut(Len(Chron))) =>
               /\ off.status = "ON TRACK"
               /\ off.currentOffSeconds = 0
               /\ off.totalOffSeconds = Locals(Len(Chron) - 1).total
               /\ off.lastOut.time = LastT

\* IN at 0 s, OUT at 60 s, then an OUT at 120 s that answers no IN.
C5_Witness ==
    /\ Done /\ ~Blank
    /\ Len(Chron) = 3
    /\ Chron[1].direction = "in" /\ Chron[2].direction = "out"
    /\ OrphanOut(3)
    /\ Chron[1].t = 0 /\ Chron[2].t = 60000 /\ Chron[3].t = 120000
    /\ off.totalOffSeconds = 60
    /\ off.lastOut.time = 120000

DatedOnly(ls) == SelectSeq(ls, LAMBDA l : Parseable(l.timestamp))

\* The shape of every value computeOffTrack returns.
IsResult(r) ==
    /\ r.status \in {"--", "ON TRACK", "OFF TRACK"}
    /\ r.currentOffSeconds \in Int
    /\ r.totalOffSeconds \in Int
    /\ r.lastIn = Null \/ r.lastIn.time \in Instants
    /\ r.lastOut = Null \/ r.lastOut.time \in Instants

\* C7: events whose timestamp does not parse are dropped before the walk:
\* the result on any log equals the result on the log with those events
\* removed, and every input is answered with a result.
C7_Unparseable ==
    Done =>
        /\ off = computeOffTrack(DatedOnly(logs), carNumber, nowMs)
        /\ IsResult(off)

\* An undated IN of the looked-up vehicle follows its dated OUT in the log.
C7_Witness ==
    /\ Done /\ ~Blank
    /\ Len(logs) = 3
    /\ OwnEntry(logs[1], carNumber) /\ Parseable(logs[1].timestamp)
    /\ logs[1].direction = "in"
    /\ OwnEntry(logs[2], carNumber) /\ Parseable(logs[2].timestamp)
    /\ logs[2].direction = "out"
    /\ OwnEntry(logs[3], carNumber) /\ ~Parseable(logs[3].timestamp)
    /\ logs[3].direction = "in"
    /\ off.status = "ON TRACK"
    /\ off.totalOffSeconds > 0

\* C8: for every log, every vehicleId and every now (also a now before the
\* open IN or before every event) currentOffSeconds >= 0 and
\* totalOffSeconds >= 0.
C8_NonNegative ==
    Done => (off.currentOffSeconds >= 0 /\ off.totalOffSeconds >= 0)

\* The clock reads earlier than the IN that is still open.
C8_Witness ==
    /\ Done /\ EndsWithIn
    /\ nowMs < LastT
    /\ \A k \in 1 .. Len(Chron) : nowMs < Chron[k].t
    /\ off.status = "OFF TRACK"
    /\ off.currentOffSeconds = 0

\* C9: for a fixed log and vehicle with an open interval, now1 <= now2
\* implies totalOffSeconds(now1) <= totalOffSeconds(now2).
C9_MonotoneInNow ==
    (Done /\ EndsWithIn) =>
        \A now2 \in Instants :
            nowMs <= now2 =>
                off.totalOffSeconds
                    <= computeOffTrack(logs, carNumber, now2).totalOffSeconds

\* An open interval whose total grows strictly from this now to a later one.
C9_Witness ==
    /\ Done /\ EndsWithIn
    /\ Len(Chron) = 3
    /\ \E now2 \in Instants :
           /\ nowMs < now2
           /\ 0 < off.totalOffSeconds
           /\ off.totalOffSeconds
                  < computeOffTrack(logs, carNumber, now2).totalOffSeconds

\* The entries of vehicle v alone, in log order.
OwnOnly(ls, v) == SelectSeq(ls, LAMBDA l : OwnEntry(l, v))

PitLogCap == 200

Min(a, b) == IF a <= b THEN a ELSE b

\* Array.prototype.slice(0, n)
sliceTo(xs, n) == SubSeq(xs, 1, Min(Len(xs), n))

\* Texts typed into the "Car number" field.
CarInputs == {<<" ", "4">>, <<"7">>, <<" ">>}

\* What the screen shows after a render with these values:
\* useMemo(() => computeOffTrack(logs, lookupCar, nowMs)).
shownOff(ls, lookup, now) == computeOffTrack(ls, lookup, now)

\* EnduranceTab as mounted on a first launch: nothing typed, nothing stored.
InitEndurance ==
    /\ car = <<>>
    /\ lookupCar = <<>>
    /\ logs = <<>>
    /\ clock = 0
    /\ nowMs = 0
    /\ off = shownOff(<<>>, <<>>, 0)
    /\ carNumber = <<>>
    /\ pc = "screen"
    /\ SeenIdle
    /\ DynamicIdle
    /\ HelpersIdle

\* onChangeText={setCar}
setCar ==
    \E text \in CarInputs :
        /\ car' = text
        /\ UNCHANGED <<lookupCar, logs, nowMs, off, clock, notEndurance>>

\* onChangeText={setLookupCar}
setLookupCar ==
    \E text \in LookupCars :
        /\ lookupCar' = text
        /\ off' = shownOff(logs, text, nowMs)
        /\ UNCHANGED <<car, logs, nowMs, clock, notEndurance>>

\* A row of "Recent pit events" is pressed: setLookupCar(item.carNumber).
pressLogRow ==
    \E i \in 1 .. Len(logs) :
        /\ lookupCar' = logs[i].carNumber
        /\ off' = shownOff(logs, logs[i].carNumber, nowMs)
        /\ UNCHANGED <<car, logs, nowMs, clock, notEndurance>>

\* "Pit In" / "Pit Out": add(direction).
add(direction) ==
    IF trim(car) = <<>>
    THEN UNCHANGED vars
    ELSE LET trimmed == trim(car)
             newEntry == Pit(trimmed, direction, toISOString(clock))
             next == sliceTo(<<newEntry>> \o logs, PitLogCap)
         IN  /\ Len(logs) < MaxLog
             /\ lookupCar' = trimmed
             /\ logs' = next
             /\ car' = <<>>
             /\ off' = shownOff(next, trimmed, nowMs)
             /\ UNCHANGED <<nowMs, clock, notEndurance>>

PitIn == add("in")

PitOut == add("out")

\* setInterval(() => setNowMs(Date.now()), 1000)
timer ==
    /\ nowMs' = clock
    /\ off' = shownOff(logs, lookupCar, clock)
    /\ UNCHANGED <<car, lookupCar, logs, clock, notEndurance>>

\* Time passes on the device.
clockAdvance ==
    /\ clock < MaxTime * 60000
    /\ clock' = clock + 60000
    /\ UNCHANGED <<car, lookupCar, logs, nowMs, off, notEndurance>>

NextEndurance ==
    \/ setCar
    \/ setLookupCar
    \/ pressLogRow
    \/ PitIn
    \/ PitOut
    \/ timer
    \/ clockAdvance

SpecEndurance == InitEndurance /\ [][NextEndurance]_vars

\* The newest recorded entry of the looked-up car (the log is newest first).
NewestOf(ls, v) ==
    ls[CHOOSE i \in 1 .. Len(ls) :
           /\ OwnEntry(ls[i], v)
           /\ \A j \in 1 .. (i - 1) : ~OwnEntry(ls[j], v)]

HasEntry(ls, v) == \E i \in 1 .. Len(ls) : OwnEntry(ls[i], v)

\* C11: after any sequence of Pit In / Pit Out presses the status shown for
\* a car is OFF TRACK if the most recently recorded event of that car is a
\* Pit In and ON TRACK if it is a Pit Out, also when consecutive presses
\* receive the same timestamp.
C11_StatusFollowsLastPress ==
    (trim(lookupCar) # <<>> /\ HasEntry(logs, lookupCar)) =>
        off.status = (IF NewestOf(logs, lookupCar).direction = "in"
                      THEN "OFF TRACK" ELSE "ON TRACK")

\* All entries of the looked-up car carry different timestamps.
DistinctStamps(ls, v) ==
    \A i, j \in 1 .. Len(ls) :
        (i # j /\ OwnEntry(ls[i], v) /\ OwnEntry(ls[j], v)) =>
            ls[i].timestamp # ls[j].timestamp

\* C11, the part the code keeps: when no two presses for the car share a
\* timestamp, the status shown follows the last press.
C11_WhenStampsDiffer ==
    (trim(lookupCar) # <<>> /\ HasEntry(logs, lookupCar)
         /\ DistinctStamps(logs, lookupCar)) =>
        off.status = (IF NewestOf(logs, lookupCar).direction = "in"
                      THEN "OFF TRACK" ELSE "ON TRACK")

\* ------------------------------------------------- the seen-cars ledger

\* Capacity of the ledger kept by the Dynamic screen's helper.
ScreenCap == 800

\* Capacity of the ledger kept by the library helper.
LibCap == 500

\* SAESeen
SAESeen(carNo, firstSeenTs) == [carNo |-> carNo, firstSeenTs |-> firstSeenTs]

\* existing.map(x => x.carNo), as the Set built from it
carNosOf(existing) == {existing[i].carNo : i \in 1 .. Len(existing)}

\* A loop body that stamps an addition but does not remember its key.
libStepForgetful(acc, carNo, nowIso) ==
    IF carNo \notin acc.seenSet
    THEN [seenSet |-> acc.seenSet,
          additions |-> Append(acc.additions, SAESeen(carNo, nowIso)),
          newlyAdded |-> acc.newlyAdded + 1]
    ELSE acc

\* A loop body that puts each addition in front of the earlier ones.
libStepPushFront(acc, carNo, nowIso) ==
    IF carNo \notin acc.seenSet
    THEN [seenSet |-> acc.seenSet \cup {carNo},
          additions |-> <<SAESeen(carNo, nowIso)>> \o acc.additions,
          newlyAdded |-> acc.newlyAdded + 1]
    ELSE acc

\* One turn of the library helper's loop over carsNow.
libStep(acc, carNo, nowIso) ==
    IF carNo \notin acc.seenSet
    THEN [seenSet |-> acc.seenSet \cup {carNo},
          additions |-> Append(acc.additions, SAESeen(carNo, nowIso)),
          newlyAdded |-> acc.newlyAdded + 1]
    ELSE acc

\* for (const carNo of carsNow) over carsNow[lo .. hi], left to right; the
\* range is walked in two halves so that long lists need no deep recursion,
\* and the test on the left half (always true) has it finished before the
\* right half starts.
RECURSIVE libLoop(_, _, _, _, _)
libLoop(acc, carsNow, lo, hi, nowIso) ==
    IF lo > hi
    THEN acc
    ELSE IF lo = hi
    THEN libStep(acc, carsNow[lo], nowIso)
    ELSE LET mid == (lo + hi) \div 2
             left == libLoop(acc, carsNow, lo, mid, nowIso)
         IN  IF Len(left.additions) >= 0
             THEN libLoop(left, carsNow, mid + 1, hi, nowIso)
             ELSE left

\* A library helper that never cuts the ledger.
libUpdateSeenCarsUncut(existing, carsNow, nowIso) ==
    LET acc == libLoop([seenSet |-> carNosOf(existing), additions |-> <<>>,
                        newlyAdded |-> 0], carsNow, 1, Len(carsNow), nowIso)
    IN  [updated |-> acc.additions \o existing,
         newlyAdded |-> acc.newlyAdded]

\* updateSeenCars of lib/saeResults.ts
libUpdateSeenCars(existing, carsNow, nowIso) ==
    LET acc == libLoop([seenSet |-> carNosOf(existing), additions |-> <<>>,
                        newlyAdded |-> 0], carsNow, 1, Len(carsNow), nowIso)
    IN  [updated |-> sliceTo(acc.additions \o existing, LibCap),
         newlyAdded |-> acc.newlyAdded]

\* One turn of the screen helper's loop over carsNow.
screenStep(acc, carNo, nowIso) ==
    IF carNo \notin acc.seenSet
    THEN [seenSet |-> acc.seenSet \cup {carNo},
          additions |-> Append(acc.additions, SAESeen(carNo, nowIso))]
    ELSE acc

\* for (const carNo of carsNow) over carsNow[lo .. hi], left to right
RECURSIVE screenLoop(_, _, _, _, _)
screenLoop(acc, carsNow, lo, hi, nowIso) ==
    IF lo > hi
    THEN acc
    ELSE IF lo = hi
    THEN screenStep(acc, carsNow[lo], nowIso)
    ELSE LET mid == (lo + hi) \div 2
             left == screenLoop(acc, carsNow, lo, mid, nowIso)
         IN  IF Len(left.additions) >= 0
             THEN screenLoop(left, carsNow, mid + 1, hi, nowIso)
             ELSE left

\* updateSeenCars of app/(tabs)/dynamic.tsx
updateSeenCars(existing, carsNow, nowIso) ==
    LET acc == screenLoop([seenSet |-> carNosOf(existing), additions |-> <<>>],
                          carsNow, 1, Len(carsNow), nowIso)
    IN  sliceTo(acc.additions \o existing, ScreenCap)

\* Short car numbers, and the lists of them a leaderboard page may yield.
Keys == {"1", "2", "3"}

MaxKeys == 2

MaxCalls == 3

KeyLists == UNION {[1 .. n -> Keys] : n \in 0 .. MaxKeys} \cup {<<"1", "2", "3">>}

\* A long leaderboard: one key short of the larger capacity.
BulkList == [i \in 1 .. (ScreenCap - 1) |-> ToString(1000 + i)]

ObservedLists == KeyLists \cup {BulkList}

\* The times of the calls: T0 and T1, a minute apart.
Stamps == {toISOString(0), toISOString(60000)}

\* The records of short keys held by a ledger.
shortRecords(xs) == {xs[i] : i \in {j \in 1 .. Len(xs) : xs[j].carNo \in Keys}}

InitSeen ==
    /\ helper \in {"screen", "lib"}
    /\ ledger = <<>>
    /\ ledgerBefore = <<>>
    /\ observed = <<>>
    /\ stamp = ""
    /\ added = 0
    /\ calls = 0
    /\ everSeen = {}
    /\ logs = <<>> /\ carNumber = <<>> /\ nowMs = 0 /\ off = Null /\ pc = "seen"
    /\ EnduranceIdle
    /\ DynamicIdle
    /\ HelpersIdle

\* updated = updateSeenCars(existing, carsNow, nowIso), by the screen's helper
CallScreen ==
    /\ helper = "screen"
    /\ calls < MaxCalls
    /\ \E ks \in ObservedLists, ts \in Stamps :
          LET updated == updateSeenCars(ledger, ks, ts)
          IN  /\ ledger' = updated
              /\ ledgerBefore' = ledger
              /\ observed' = ks
              /\ stamp' = ts
              /\ added' = 0
              /\ everSeen' = everSeen \cup shortRecords(updated)
    /\ calls' = calls + 1
    /\ UNCHANGED <<helper, notSeen>>

\* { updated, newlyAdded } = updateSeenCars(existing, carsNow, nowIso), by
\* the library helper
CallLib ==
    /\ helper = "lib"
    /\ calls < MaxCalls
    /\ \E ks \in ObservedLists, ts \in Stamps :
          LET r == libUpdateSeenCars(ledger, ks, ts)
          IN  /\ ledger' = r.updated
              /\ ledgerBefore' = ledger
              /\ observed' = ks
              /\ stamp' = ts
              /\ added' = r.newlyAdded
              /\ everSeen' = everSeen \cup shortRecords(r.updated)
    /\ calls' = calls + 1
    /\ UNCHANGED <<helper, notSeen>>

NextSeen == CallScreen \/ CallLib

SpecSeen == InitSeen /\ [][NextSeen]_vars

\* The capacity of the helper in use.
Cap == IF helper = "lib" THEN LibCap ELSE ScreenCap

\* What a second call with the same observed keys at time t2 returns.
secondCall(t2) ==
    IF helper = "lib"
    THEN libUpdateSeenCars(ledger, observed, t2)
    ELSE [updated |-> updateSeenCars(ledger, observed, t2), newlyAdded |-> 0]

\* C12: a call of updateSeen on the output of a call, with the same observed
\* keys and at any time t2, adds nothing (newlyAddedCount = 0) and returns
\* every record exactly as the first call returned it.
C12_Idempotent ==
    calls > 0 =>
        \A t2 \in Stamps :
            /\ secondCall(t2).newlyAdded = 0
            /\ secondCall(t2).updated = ledger

\* C12, the part the code keeps: a repeated call changes nothing when the
\* first call dropped no record that the observed keys name.
C12_WhenNothingDropped ==
    (calls > 0 /\ Cardinality(carNosOf(ledgerBefore) \cup {observed[i] : i \in 1 .. Len(observed)}) <= Cap) =>
        \A t2 \in Stamps :
            /\ secondCall(t2).newlyAdded = 0
            /\ secondCall(t2).updated = ledger

\* No two records of the ledger carry the same key.
NoDuplicateKeys(xs) == Cardinality(carNosOf(xs)) = Len(xs)

\* C13: over any sequence of updateSeen calls from an empty ledger, no
\* ledger holds two records with the same key, and a key once recorded with
\* a first-seen time is never later present with a different one.
C13_FirstSeenImmutable ==
    /\ NoDuplicateKeys(ledger)
    /\ \A r1, r2 \in everSeen :
           r1.carNo = r2.carNo => r1.firstSeenTs = r2.firstSeenTs

\* C13, the part the code keeps: no ledger holds a key twice, and a call
\* returns every record it keeps with the first-seen time it had.
C13_KeptRecordsUnchanged ==
    /\ NoDuplicateKeys(ledger)
    /\ \A r \in shortRecords(ledgerBefore) :
           r.carNo \in carNosOf(ledger) => r \in shortRecords(ledger)

\* The records the last call added: the head of the returned ledger that
\* was not in the ledger given.
addedCount == Cardinality(carNosOf(ledger) \ carNosOf(ledgerBefore))

\* C14: the ledger a call returns is never longer than the capacity of the
\* helper (800 for the screen's helper, 500 for the library's), and when the
\* bound is hit the records dropped are those at the tail: the records kept
\* from the ledger given are its head, in order, at the end of the result.
C14_Bounded ==
    calls > 0 =>
        /\ Len(ledger) <= Cap
        /\ LET kept == Len(ledger) - addedCount
           IN  /\ kept >= 0
               /\ kept <= Len(ledgerBefore)
               /\ SubSeq(ledger, addedCount + 1, Len(ledger)) = SubSeq(ledgerBefore, 1, kept)
               /\ (kept < Len(ledgerBefore) => Len(ledger) = Cap)

\* A call met the bound: it was given records that did not all fit.
C14_Witness ==
    /\ calls > 0
    /\ Len(ledger) = Cap
    /\ Len(ledger) - addedCount < Len(ledgerBefore)
    /\ Len(ledger) - addedCount > 0

\* The scenario: existing = [{key "1", T0}], observed keys ["1", "2", "3"],
\* now = T1.
Scenario15 ==
    /\ calls > 0
    /\ ledgerBefore = <<SAESeen("1", toISOString(0))>>
    /\ observed = <<"1", "2", "3">>
    /\ stamp = toISOString(60000)

\* C15 as stated: in the scenario the result has key "3" at index 0, key
\* "2" at index 1, key "1" at index 2, and two keys were newly added.
C15_AsStated ==
    Scenario15 =>
        /\ Len(ledger) = 3
        /\ ledger[1].carNo = "3"
        /\ ledger[2].carNo = "2"
        /\ ledger[3].carNo = "1"
        /\ (helper = "lib" => added = 2)

\* C15: in the scenario the result has key "2" at index 0, key "3" at index
\* 1 (both first seen at T1) and key "1" at index 2 (first seen at T0), and
\* two keys were newly added.
C15_Scenario ==
    Scenario15 =>
        /\ ledger = <<SAESeen("2", toISOString(60000)),
                      SAESeen("3", toISOString(60000)),
                      SAESeen("1", toISOString(0))>>
        /\ (helper = "lib" => added = 2)

C15_Witness == Scenario15 /\ helper = "lib" /\ added = 2

\* The keys of ks that are not keys of xs, one per distinct key, in the
\* order in which they first appear in ks.
NewKeysInOrder(xs, ks) ==
    LET tagged == [i \in 1 .. Len(ks) |-> <<i, ks[i]>>]
        isNew(p) == /\ p[2] \notin carNosOf(xs)
                    /\ \A j \in 1 .. (p[1] - 1) : ks[j] # p[2]
        chosen == SelectSeq(tagged, isNew)
    IN  [n \in 1 .. Len(chosen) |-> chosen[n][2]]

\* The records a call at time ts adds for those keys.
NewRecords(xs, ks, ts) ==
    LET new == NewKeysInOrder(xs, ks)
    IN  [n \in 1 .. Len(new) |-> SAESeen(new[n], ts)]

\* C16: the ledger a call returns is the newly added records (one per
\* distinct observed key not in the ledger given, in the order those keys
\* first appear among the observed keys, each first seen now), followed by
\* the ledger given in its order, cut to the capacity; and whenever the call
\* adds a key, index 0 holds a record added by that call.
C16_PrependOrder ==
    calls > 0 =>
        LET new == NewRecords(ledgerBefore, observed, stamp)
        IN  /\ ledger = sliceTo(new \o ledgerBefore, Cap)
            /\ (helper = "lib" => added = Len(new))
            /\ (Len(new) > 0 =>
                    /\ ledger[1].firstSeenTs = stamp
                    /\ ledger[1].carNo \notin carNosOf(ledgerBefore)
                    /\ ledger[1].carNo = new[1].carNo)

\* The example: the ledger [1] and the observed keys [1, 2, 3] give [2, 3, 1].
C16_Witness ==
    /\ calls > 0
    /\ Len(ledgerBefore) = 1
    /\ ledgerBefore[1].carNo = "1"
    /\ observed = <<"1", "2", "3">>
    /\ Len(ledger) = 3
    /\ ledger[1].carNo = "2" /\ ledger[2].carNo = "3" /\ ledger[3].carNo = "1"

\* ------------------------------------------------- the Dynamic screen

\* The longest queue and the most completions the model lets be entered.
MaxLine == 1

MaxCompletions == 2

\* The most snapshots taken, and the most fetches under way at a time.
MaxSamples == 1

MaxInflight == 1

SAE_FRESH_WINDOW_MS == 60 * 1000

\* The entries of the event dropdown.
Events == {"Acceleration", "Maneuverability"}

\* SAE_EVENT_CODE[name]; "" stands for the undefined of a name without code.
SAE_EVENT_CODE(name) ==
    CASE name = "Acceleration" -> "ACCEL"
      [] name = "Maneuverability" -> "MANU"
      [] name = "Suspension" -> "SPEC"
      [] OTHER -> ""

\* eventName.trim(): the dropdown's labels and '' carry no white space.
trimName(name) == name

\* A string held in a state that may also hold null.
Text(t) == [text |-> t]

\* String(n)
String(n) == ToString(n)

\* Number(prev) || 0
numberOrZero(text) ==
    IF \E n \in 0 .. MaxLine : String(n) = text
    THEN CHOOSE n \in 0 .. MaxLine : String(n) = text
    ELSE 0

\* Completion
Completion(e, ts) == [eventName |-> e, timestamp |-> ts]

\* A helper that takes an unreadable first-seen time for a recent one.
hasRecentNewCarSeenLenient(seen, now) ==
    \E i \in 1 .. Len(seen) :
        LET t == NewDate(seen[i].firstSeenTs)
        IN  t.nan \/ now - t.time <= SAE_FRESH_WINDOW_MS

\* hasRecentNewCarSeen
hasRecentNewCarSeen(seen, now) ==
    \E i \in 1 .. Len(seen) :
        LET t == NewDate(seen[i].firstSeenTs)
        IN  ~t.nan /\ now - t.time <= SAE_FRESH_WINDOW_MS

\* xs.map(x => new Date(x).getTime()).filter(t => Number.isFinite(t)), as
\* the set of its values and the number of its entries
finiteTimes(texts) ==
    {i \in 1 .. Len(texts) : ~NewDate(texts[i]).nan}

oldest(texts) ==
    LET ok == finiteTimes(texts)
    IN  NewDate(texts[CHOOSE i \in ok :
                          \A j \in ok : NewDate(texts[i]).time <= NewDate(texts[j]).time]).time

\* A rate in completions per minute, kept as the exact quotient
\* num / den (a count times 60000 over a number of milliseconds).
Quotient(num, den) == [num |-> num, den |-> den]

Zero == Quotient(0, 1)

\* An elapsed time without the quarter-minute floor.
elapsedMinNoFloor(now, start) == now - start

\* Math.max(0.25, (nowMs - start) / 60000), in milliseconds
elapsedMin(now, start) == Max(15000, now - start)

\* count / elapsedMin
perMinute(n, now, start) == Quotient(n * 60000, elapsedMin(now, start))

\* A freshness test that takes a last update in the future for a fresh one.
saeIsFreshNoLowerBound ==
    IF ~useSAERunRate \/ ~isOnline \/ SAE_EVENT_CODE(eventName) = ""
    THEN FALSE
    ELSE IF saeLastUpdate = Null
    THEN hasRecentNewCarSeen(saeSeen, nowMs)
    ELSE nowMs - saeLastUpdate.ms <= SAE_FRESH_WINDOW_MS

\* saeIsFresh
saeIsFresh ==
    IF ~useSAERunRate \/ ~isOnline \/ SAE_EVENT_CODE(eventName) = ""
    THEN FALSE
    ELSE IF saeLastUpdate = Null
    THEN hasRecentNewCarSeen(saeSeen, nowMs)
    ELSE LET age == nowMs - saeLastUpdate.ms
         IN  age >= 0 /\ age <= SAE_FRESH_WINDOW_MS

\* completions.filter(c => c.eventName.trim() === e)
forEvent(cs, e) ==
    SelectSeq(cs, LAMBDA c : trimName(c.eventName) = e)

\* eventName.trim() || 'Event'
eventOrDefault == IF trimName(eventName) = "" THEN "Event" ELSE trimName(eventName)

\* { rate, count, sourceLabel }
\* A rate memo that extrapolates from the ledger whether the feed is fresh or
\* not.
rateMemoExtrapolating ==
    IF useSAERunRate /\ isOnline /\ SAE_EVENT_CODE(eventName) # ""
    THEN LET stamps == [i \in 1 .. Len(saeSeen) |-> saeSeen[i].firstSeenTs]
             times == finiteTimes(stamps)
         IN  IF Len(saeSeen) = 0 \/ times = {}
             THEN [rate |-> Zero, count |-> 0, sourceLabel |-> "SAE"]
             ELSE [rate |-> perMinute(Cardinality(times), nowMs, oldest(stamps)),
                   count |-> Cardinality(times), sourceLabel |-> "SAE"]
    ELSE LET cCount == Len(forEvent(completions, eventOrDefault))
         IN  IF cCount = 0 \/ manualStartTs = Null
             THEN [rate |-> Zero, count |-> cCount, sourceLabel |-> "Manual"]
             ELSE [rate |-> perMinute(cCount, nowMs, NewDate(manualStartTs.text).time),
                   count |-> cCount, sourceLabel |-> "Manual"]

rateMemo ==
    IF useSAERunRate /\ isOnline /\ SAE_EVENT_CODE(eventName) # ""
    THEN IF ~saeIsFresh
         THEN [rate |-> Zero, count |-> 0, sourceLabel |-> "SAE (stale)"]
         ELSE LET stamps == [i \in 1 .. Len(saeSeen) |-> saeSeen[i].firstSeenTs]
                  times == finiteTimes(stamps)
              IN  IF Len(saeSeen) = 0 \/ times = {}
                  THEN [rate |-> Zero, count |-> 0, sourceLabel |-> "SAE"]
                  ELSE [rate |-> perMinute(Cardinality(times), nowMs, oldest(stamps)),
                        count |-> Cardinality(times), sourceLabel |-> "SAE"]
    ELSE LET cCount == Len(forEvent(completions, eventOrDefault))
         IN  IF cCount = 0 \/ manualStartTs = Null
             THEN [rate |-> Zero, count |-> cCount, sourceLabel |-> "Manual"]
             ELSE [rate |-> perMinute(cCount, nowMs, NewDate(manualStartTs.text).time),
                   count |-> cCount, sourceLabel |-> "Manual"]

rate == rateMemo.rate

count == rateMemo.count

sourceLabel == rateMemo.sourceLabel

\* rate > 0
positive(q) == q.num > 0 /\ q.den >= 0

\* An ETA that is 0 when there is no rate.
etaOfZeroDefault(r, ll) ==
    IF positive(r) THEN Quotient(ll * r.den, r.num) ELSE Quotient(0, 1)

\* rate > 0 ? ll / rate : undefined (Null)
etaOf(r, ll) ==
    IF positive(r) THEN Quotient(ll * r.den, r.num) ELSE Null

eta == etaOf(rate, numberOrZero(lineLength))

\* Number.isFinite(x) for an ETA
isFinite(x) == x # Null /\ x.den # 0

\* Number(q.toFixed(digits)), as the number of 10^-digits units: scale is
\* 10^digits, and the quotient is rounded to the nearest unit.
toFixed(q, scale) ==
    (q.num \div q.den) * scale + ((q.num % q.den) * scale + q.den \div 2) \div q.den

\* LineSample
LineSample(e, ll, r, x, ts) ==
    [eventName |-> e, lineLength |-> ll, runRate |-> toFixed(r, 10000),
     etaMinutes |-> IF isFinite(x) THEN [hundredths |-> toFixed(x, 100)] ELSE Null,
     timestamp |-> ts]

\* The samples list keeps its 50 newest entries.
SamplesCap == 50

\* What the Dynamic screen never touches.
notDynamic == <<logs, carNumber, off, pc, car, lookupCar, seenVars, helperVars>>

\* The poll effect runs its tick only in SAE mode, with an event that has a
\* code, while online.
pollRuns(use, name, online) == use /\ SAE_EVENT_CODE(name) # "" /\ online

\* The status the poll effect sets when it runs ("..." for the ellipsis).
pollStatus(use, name, online) ==
    IF ~use THEN "SAE disabled (manual mode)"
    ELSE IF SAE_EVENT_CODE(name) = "" THEN "Select an event to pull SAE results"
    ELSE IF ~online THEN "Offline (SAE paused)"
    ELSE "Fetching SAE..."

\* The poll effect is cleaned up and run again for new values of its
\* dependencies: the fetches of the old run become cancelled ones, and the
\* new run, if it gets past its guards, starts a fetch at once.
pollEffect(use, name, online) ==
    /\ cancelledInflight + inflight <= MaxInflight
    /\ cancelledInflight' = cancelledInflight + inflight
    /\ inflight' = IF pollRuns(use, name, online) THEN 1 ELSE 0
    /\ saeStatus' = pollStatus(use, name, online)

\* DynamicTab after its first render and effects: no event selected.
InitDynamic ==
    /\ isOnline = TRUE
    /\ eventName = ""
    /\ lineLength = "0"
    /\ samples = <<>>
    /\ completions = <<>>
    /\ useSAERunRate = TRUE
    /\ saeSeen = <<>>
    /\ saeStatus = pollStatus(TRUE, "", TRUE)
    /\ saeLastUpdate = Null
    /\ manualStartTs = Null
    /\ inflight = 0
    /\ cancelledInflight = 0
    /\ alert = Null
    /\ beforePlus = Null
    /\ nowMs = 0
    /\ clock = 0
    /\ logs = <<>> /\ carNumber = <<>> /\ off = Null /\ pc = "dynamic"
    /\ car = <<>> /\ lookupCar = <<>>
    /\ SeenIdle
    /\ HelpersIdle

\* The model follows the screen until it has taken MaxSamples snapshots.
watching == Len(samples) < MaxSamples

\* A reset effect that leaves the manual session start as it is.
resetOnEventKeepingStart(seen, last, start) == <<<<>>, Null, start>>

\* The effect on [eventName]: setSaeSeen([]), setSaeLastUpdateMs(null) and
\* setSaeLastUpdateRaw(null), setManualStartTs(null); the new values of the
\* ledger, the last update and the manual start, whatever they were.
resetOnEvent(seen, last, start) == <<<<>>, Null, Null>>

\* The dropdown sets the event; a new value runs the reset effect and the
\* poll effect again.
selectEvent ==
    /\ watching
    /\ alert = Null
    /\ \E v \in Events :
           IF v = eventName
           THEN UNCHANGED vars
           ELSE /\ eventName' = v
                /\ LET reset == resetOnEvent(saeSeen, saeLastUpdate, manualStartTs)
                   IN  /\ saeSeen' = reset[1]
                       /\ saeLastUpdate' = reset[2]
                       /\ manualStartTs' = reset[3]
                /\ pollEffect(useSAERunRate, v, isOnline)
                /\ UNCHANGED <<isOnline, lineLength, samples, completions,
                               useSAERunRate, nowMs, clock, alert, notDynamic>>
                /\ beforePlus' = Null

\* The "SAE" and "Manual" buttons: setUseSAERunRate(true / false).
setUseSAERunRate ==
    /\ watching
    /\ alert = Null
    /\ \E b \in BOOLEAN :
           IF b = useSAERunRate
           THEN UNCHANGED vars
           ELSE /\ useSAERunRate' = b
                /\ pollEffect(b, eventName, isOnline)
                /\ UNCHANGED <<isOnline, eventName, lineLength, samples, completions,
                               saeSeen, saeLastUpdate, manualStartTs,
                               nowMs, clock, alert, notDynamic>>
                /\ beforePlus' = Null

\* useOnline() reports a change of connectivity.
onlineChange ==
    /\ watching
    /\ isOnline' = ~isOnline
    /\ pollEffect(useSAERunRate, eventName, ~isOnline)
    /\ UNCHANGED <<eventName, lineLength, samples, completions, useSAERunRate,
                   saeSeen, saeLastUpdate, manualStartTs, nowMs, clock, alert, notDynamic>>
    /\ beforePlus' = Null

\* setInterval(tick, 20000) of the running poll: another fetch starts.
pollTick ==
    /\ watching
    /\ pollRuns(useSAERunRate, eventName, isOnline)
    /\ inflight < MaxInflight
    /\ inflight' = inflight + 1
    /\ saeStatus' = "Fetching SAE..."
    /\ UNCHANGED <<isOnline, eventName, lineLength, samples, completions,
                   useSAERunRate, saeSeen, saeLastUpdate, manualStartTs,
                   cancelledInflight, nowMs, clock, alert, notDynamic>>
    /\ beforePlus' = Null

\* What a fetched page yields: the cars with results, and its "Last Data
\* Update" line (absent, or a time with the text it was written as).
CarsOnPage == {<<>>, <<"1">>, <<"1", "2">>}

rawOf(ms) == "01/01/1970 12:0" \o Digit[(ms \div 60000) + 1] \o ":00 AM"

LastUpdates ==
    {Null} \cup {[ms |-> ms, raw |-> rawOf(ms)] : ms \in Instants \ {MaxTime * 60000}}

\* Math.round((now - last.ms) / 1000), for whole minutes
ageSeconds(now, last) == (now - last.ms) \div 1000

\* The status set by a processed response ("--" for the dash).
responseStatus(fresh, now, last) ==
    IF last # Null
    THEN (IF fresh THEN "SAE OK" ELSE "SAE stale") \o " -- site updated "
             \o ToString(ageSeconds(now, last)) \o "s ago (Last Data Update: "
             \o last.raw \o ")"
    ELSE (IF fresh THEN "SAE OK" ELSE "SAE stale")
             \o " -- (timestamp not found; using fallback)"

\* fresh, as the updater of setSaeSeen computes it
freshNow(updatedSeen, now, last) ==
    \/ last # Null /\ now - last.ms >= 0 /\ now - last.ms <= SAE_FRESH_WINDOW_MS
    \/ last = Null /\ hasRecentNewCarSeen(updatedSeen, now)

\* A response whose cars go into the ledger whether it is fresh or not.
responseKeepingStale ==
    /\ watching
    /\ inflight > 0
    /\ \E carsNow \in CarsOnPage, last \in LastUpdates :
          LET now == clock
              nowIso == toISOString(clock)
              updatedSeen == updateSeenCars(saeSeen, carsNow, nowIso)
              fresh == freshNow(updatedSeen, now, last)
          IN  /\ saeLastUpdate' = last
              /\ saeStatus' = responseStatus(fresh, now, last)
              /\ saeSeen' = updatedSeen
    /\ inflight' = inflight - 1
    /\ UNCHANGED <<isOnline, eventName, lineLength, samples, completions,
                   useSAERunRate, manualStartTs, cancelledInflight,
                   nowMs, clock, alert, notDynamic>>
    /\ beforePlus' = Null

\* A fetch of the running poll resolves: the rest of tick() runs.
response ==
    /\ watching
    /\ inflight > 0
    /\ \E carsNow \in CarsOnPage, last \in LastUpdates :
          LET now == clock
              nowIso == toISOString(clock)
              updatedSeen == updateSeenCars(saeSeen, carsNow, nowIso)
              fresh == freshNow(updatedSeen, now, last)
          IN  /\ saeLastUpdate' = last
              /\ saeStatus' = responseStatus(fresh, now, last)
              /\ saeSeen' = IF fresh THEN updatedSeen ELSE saeSeen
    /\ inflight' = inflight - 1
    /\ UNCHANGED <<isOnline, eventName, lineLength, samples, completions,
                   useSAERunRate, manualStartTs, cancelledInflight,
                   nowMs, clock, alert, notDynamic>>
    /\ beforePlus' = Null

\* A fetch of a cleaned-up poll resolves: if (cancelled) return.
lateResponse ==
    /\ watching
    /\ cancelledInflight > 0
    /\ cancelledInflight' = cancelledInflight - 1
    /\ UNCHANGED <<isOnline, eventName, lineLength, samples, completions,
                   useSAERunRate, saeSeen, saeStatus, saeLastUpdate,
                   manualStartTs, inflight, nowMs, clock, alert, notDynamic>>
    /\ beforePlus' = Null

\* A fetch throws, of the running poll or of a cleaned-up one: the catch
\* block sets the status.
fetchFails ==
    /\ watching
    /\ \/ inflight > 0 /\ inflight' = inflight - 1 /\ UNCHANGED cancelledInflight
       \/ /\ cancelledInflight > 0
          /\ cancelledInflight' = cancelledInflight - 1
          /\ UNCHANGED inflight
    /\ saeStatus' = "SAE fetch failed (network/site). Manual still works."
    /\ UNCHANGED <<isOnline, eventName, lineLength, samples, completions,
                   useSAERunRate, saeSeen, saeLastUpdate, manualStartTs,
                   nowMs, clock, alert, notDynamic>>
    /\ beforePlus' = Null

\* setInterval(() => setNowMs(Date.now()), 1000)
tickNow ==
    /\ watching
    /\ nowMs' = clock
    /\ UNCHANGED <<dynamicVars, clock, notDynamic>>

\* Time passes on the device.
timePasses ==
    /\ watching
    /\ clock < MaxTime * 60000
    /\ clock' = clock + 60000
    /\ UNCHANGED <<dynamicVars, nowMs, notDynamic>>

\* requireEventOrAlert(): the trimmed event name, "" standing for the null
\* returned with the alert.
\* A handler that asks for the event and gets none answers with a default.
requireEventOrAlertDefaulting == eventOrDefault

requireEventOrAlert == trimName(eventName)

\* Alert.alert('Event required', 'Please select an event first.')
EventRequired == [title |-> "Event required", message |-> "Please select an event first."]

\* What a handler does when requireEventOrAlert() returns null: the alert,
\* and return.
alerts ==
    /\ alert' = EventRequired
    /\ UNCHANGED <<isOnline, eventName, lineLength, samples, completions,
                   useSAERunRate, saeSeen, saeStatus, saeLastUpdate,
                   manualStartTs, inflight, cancelledInflight, nowMs, clock,
                   notDynamic>>
    /\ beforePlus' = Null

\* The user closes the dialog; while it is up no button behind it is pressed.
dismissAlert ==
    /\ watching
    /\ alert # Null
    /\ alert' = Null
    /\ UNCHANGED <<isOnline, eventName, lineLength, samples, completions,
                   useSAERunRate, saeSeen, saeStatus, saeLastUpdate,
                   manualStartTs, inflight, cancelledInflight, nowMs, clock,
                   notDynamic>>
    /\ beforePlus' = Null

\* Queue "+"
incrementLine ==
    /\ watching
    /\ alert = Null
    /\ IF requireEventOrAlert = ""
       THEN alerts
       ELSE /\ numberOrZero(lineLength) < MaxLine
            /\ lineLength' = String(numberOrZero(lineLength) + 1)
            /\ UNCHANGED <<isOnline, eventName, samples, completions, useSAERunRate,
                           saeSeen, saeStatus, saeLastUpdate, manualStartTs,
                           inflight, cancelledInflight, nowMs, clock, alert, notDynamic>>
            /\ beforePlus' = Null

\* Queue "-"
decrementLine ==
    /\ watching
    /\ alert = Null
    /\ IF requireEventOrAlert = ""
       THEN alerts
       ELSE /\ lineLength' = String(Max(0, numberOrZero(lineLength) - 1))
            /\ UNCHANGED <<isOnline, eventName, samples, completions, useSAERunRate,
                           saeSeen, saeStatus, saeLastUpdate, manualStartTs,
                           inflight, cancelledInflight, nowMs, clock, alert, notDynamic>>
            /\ beforePlus' = Null

\* A completion that leaves the queue as it is.
plusOneKeepingLine ==
    /\ watching
    /\ alert = Null
    /\ ~useSAERunRate
    /\ IF requireEventOrAlert = ""
       THEN alerts
       ELSE LET ts == toISOString(clock)
            IN  /\ Len(completions) < MaxCompletions
                /\ completions' = <<Completion(requireEventOrAlert, ts)>> \o completions
                /\ manualStartTs' = IF manualStartTs = Null THEN Text(ts) ELSE manualStartTs
                /\ UNCHANGED <<isOnline, eventName, lineLength, samples, useSAERunRate,
                               saeSeen, saeStatus, saeLastUpdate,
                               inflight, cancelledInflight, nowMs, clock, alert, notDynamic>>
                /\ beforePlus' = [completions |-> completions, lineLength |-> lineLength]

\* Completions "+" (pressable in manual mode only)
plusOne ==
    /\ watching
    /\ alert = Null
    /\ ~useSAERunRate
    /\ IF requireEventOrAlert = ""
       THEN alerts
       ELSE LET ts == toISOString(clock)
            IN  /\ Len(completions) < MaxCompletions
                /\ completions' = <<Completion(requireEventOrAlert, ts)>> \o completions
                /\ manualStartTs' = IF manualStartTs = Null THEN Text(ts) ELSE manualStartTs
                /\ lineLength' = String(Max(0, numberOrZero(lineLength) - 1))
                /\ UNCHANGED <<isOnline, eventName, samples, useSAERunRate,
                               saeSeen, saeStatus, saeLastUpdate,
                               inflight, cancelledInflight, nowMs, clock, alert, notDynamic>>
                /\ beforePlus' = [completions |-> completions, lineLength |-> lineLength]

\* prev.findIndex(c => c.eventName.trim() === e), 0 standing for -1
findIndex(cs, e) ==
    IF \E i \in 1 .. Len(cs) : trimName(cs[i].eventName) = e
    THEN CHOOSE i \in 1 .. Len(cs) :
             /\ trimName(cs[i].eventName) = e
             /\ \A j \in 1 .. (i - 1) : trimName(cs[j].eventName) # e
    ELSE 0

\* [...prev.slice(0, idx), ...prev.slice(idx + 1)]
without(cs, idx) == SubSeq(cs, 1, idx - 1) \o SubSeq(cs, idx + 1, Len(cs))

timestampsOf(cs) == [i \in 1 .. Len(cs) |-> cs[i].timestamp]

\* Completions "-" (pressable in manual mode only)
undoCompletion ==
    /\ watching
    /\ alert = Null
    /\ ~useSAERunRate
    /\ IF requireEventOrAlert = ""
       THEN alerts
       ELSE LET e == requireEventOrAlert
                idx == findIndex(completions, e)
                next == without(completions, idx)
                remainingForEvent == forEvent(next, e)
            IN  /\ numberOrZero(lineLength) < MaxLine
                /\ IF idx = 0
                   THEN UNCHANGED <<completions, manualStartTs>>
                   ELSE /\ completions' = next
                        /\ manualStartTs' =
                              IF Len(remainingForEvent) = 0
                              THEN Null
                              ELSE Text(toISOString(oldest(timestampsOf(remainingForEvent))))
                /\ lineLength' = String(numberOrZero(lineLength) + 1)
                /\ UNCHANGED <<isOnline, eventName, samples, useSAERunRate,
                               saeSeen, saeStatus, saeLastUpdate,
                               inflight, cancelledInflight, nowMs, clock, alert, notDynamic>>
                /\ beforePlus' = Null

\* "Snapshot Line Length"
snapshot ==
    /\ watching
    /\ alert = Null
    /\ LET ll == numberOrZero(lineLength)
           entry == LineSample(eventOrDefault, ll, rate, eta, toISOString(clock))
       IN  samples' = sliceTo(<<entry>> \o samples, SamplesCap)
    /\ UNCHANGED <<isOnline, eventName, lineLength, completions, useSAERunRate,
                   saeSeen, saeStatus, saeLastUpdate, manualStartTs,
                   inflight, cancelledInflight, nowMs, clock, alert, notDynamic>>
    /\ beforePlus' = Null

NextDynamic ==
    \/ selectEvent
    \/ setUseSAERunRate
    \/ onlineChange
    \/ pollTick
    \/ response
    \/ lateResponse
    \/ fetchFails
    \/ tickNow
    \/ timePasses
    \/ incrementLine
    \/ decrementLine
    \/ plusOne
    \/ undoCompletion
    \/ snapshot
    \/ dismissAlert

SpecDynamic == InitDynamic /\ [][NextDynamic]_vars

\* C17: whenever the selected event changes to a different value, the seen
\* ledger becomes empty, the feed's last-update time becomes unknown and the
\* manual session start becomes unset, whatever they held before.
C17_EventSwitchResets ==
    [][eventName' # eventName =>
           /\ saeSeen' = <<>>
           /\ saeLastUpdate' = Null
           /\ manualStartTs' = Null]_vars

\* An event is selected for which there is neither ledger, last update nor
\* manual start, while completions of another event, which set a manual
\* start, are still recorded: the event was switched after them.
C17_Witness ==
    /\ eventName \in Events
    /\ completions # <<>>
    /\ \A i \in 1 .. Len(completions) : completions[i].eventName # eventName
    /\ saeSeen = <<>>
    /\ saeLastUpdate = Null
    /\ manualStartTs = Null

\* The completions counted for the selected event.
counted == forEvent(completions, eventOrDefault)

\* C18: whenever the manual rate is non-zero, the window start is the
\* timestamp of the earliest completion counted for the selected event, so
\* every counted completion has a timestamp at or after the window start.
C18_WindowStartsAtFirstCounted ==
    (sourceLabel = "Manual" /\ positive(rate)) =>
        /\ manualStartTs # Null
        /\ NewDate(manualStartTs.text).time = oldest(timestampsOf(counted))
        /\ \A i \in 1 .. Len(counted) :
               NewDate(counted[i].timestamp).time >= NewDate(manualStartTs.text).time

\* The feed supplies the rate: SAE mode, online, an event with a code.
feedMode == useSAERunRate /\ isOnline /\ SAE_EVENT_CODE(eventName) # ""

\* A window start exists: the first-seen time of a ledger record in feed
\* mode, the manual session start in manual mode.
HasWindowStart ==
    IF feedMode
    THEN \E i \in 1 .. Len(saeSeen) : ~NewDate(saeSeen[i].firstSeenTs).nan
    ELSE manualStartTs # Null

WindowStart ==
    IF feedMode
    THEN oldest([i \in 1 .. Len(saeSeen) |-> saeSeen[i].firstSeenTs])
    ELSE NewDate(manualStartTs.text).time

\* C19: in manual and in feed mode, whenever count > 0 and a window start
\* exists, rate = count / max(0.25 min, (now - windowStart) / 60000 ms); so
\* the divisor is positive, never zero or negative even when now is at or
\* before the window start, and rate <= 4 * count per minute.
C19_RateFloor ==
    (count > 0 /\ HasWindowStart) =>
        /\ rate.den > 0
        /\ rate = Quotient(count * 60000, Max(15000, nowMs - WindowStart))
        /\ rate.num <= 4 * count * rate.den

\* A rate is shown while the render's now is before the window start.
C19_Witness ==
    /\ count > 0
    /\ HasWindowStart
    /\ nowMs < WindowStart
    /\ positive(rate)

\* C20: the ETA is queueLength / rate exactly when rate > 0 and undefined
\* whenever rate is 0, never a zero by default, NaN or an infinity; and a
\* snapshot taken while the ETA is undefined stores etaMinutes = null.
C20_EtaDefinedness ==
    /\ [](IF positive(rate)
          THEN /\ eta # Null
               /\ rate.den > 0
               /\ eta.den > 0
               /\ eta = Quotient(numberOrZero(lineLength) * rate.den, rate.num)
          ELSE eta = Null)
    /\ [][(samples' # samples /\ eta = Null) =>
              samples'[1].etaMinutes = Null]_vars

\* A snapshot was taken while there was no rate, and stored no ETA.
C20_Witness ==
    /\ samples # <<>>
    /\ samples[1].runRate = 0
    /\ samples[1].etaMinutes = Null
    /\ samples[1].lineLength > 0

\* The feed's last update lies within the freshness window before now.
InWindow(now, ms) == now - ms >= 0 /\ now - ms <= 60000

\* A ledger record was first seen, at a readable time, no more than the
\* freshness window before now.
SeenWithin(seen, now) ==
    \E i \in 1 .. Len(seen) :
        /\ seen[i].firstSeenTs \in {IsoTable[ms] : ms \in Instants}
        /\ \E ms \in Instants :
               IsoTable[ms] = seen[i].firstSeenTs /\ now - ms <= 60000

\* The feed is fresh at the render's now: by the feed's own last-update time
\* when one is known, by the ledger otherwise.
FeedFresh ==
    IF saeLastUpdate # Null
    THEN InWindow(nowMs, saeLastUpdate.ms)
    ELSE SeenWithin(saeSeen, nowMs)

\* C21: in feed mode, in every state where the feed is not fresh, the
\* estimator reports rate 0 and count 0 with the source label 'SAE (stale)',
\* however many cars the ledger holds.
C21_StaleGivesZero ==
    (feedMode /\ ~FeedFresh) =>
        /\ rate = Zero
        /\ count = 0
        /\ sourceLabel = "SAE (stale)"

\* The feed has gone stale while the ledger holds a car.
C21_Witness ==
    /\ feedMode
    /\ ~FeedFresh
    /\ Len(saeSeen) > 0
    /\ sourceLabel = "SAE (stale)"

\* C22 as stated: when the last successful poll yielded a feed last-update
\* time, the feed is fresh if and only if now - feedLastUpdated <= 60 s.
C22_AsStated ==
    (feedMode /\ saeLastUpdate # Null) =>
        (saeIsFresh <=> nowMs - saeLastUpdate.ms <= 60000)

\* A step in which a fetch of the running poll resolved with a page that
\* carries a last-update time.
TimestampedResponse ==
    /\ inflight' = inflight - 1
    /\ saeLastUpdate' # Null
    /\ saeStatus' \in {responseStatus(f, clock, saeLastUpdate') : f \in BOOLEAN}

\* C22: in feed mode, when the last successful poll yielded a feed
\* last-update time, the feed is fresh if and only if
\* 0 <= now - feedLastUpdated <= 60 s (a last update in the future is not
\* fresh), at every render's now and, with the clock's now, at poll time.
C22_FreshByTimestamp ==
    /\ []((feedMode /\ saeLastUpdate # Null) =>
              (saeIsFresh <=> InWindow(nowMs, saeLastUpdate.ms)))
    /\ [][TimestampedResponse =>
              /\ (saeStatus' = responseStatus(TRUE, clock, saeLastUpdate')
                      <=> InWindow(clock, saeLastUpdate'.ms))
              /\ (~InWindow(clock, saeLastUpdate'.ms) => saeSeen' = saeSeen)]_vars

\* The feed's last update lies after the render's now, and the feed is not
\* taken for fresh.
C22_Witness ==
    /\ feedMode
    /\ saeLastUpdate # Null
    /\ nowMs < saeLastUpdate.ms
    /\ ~saeIsFresh

\* ------------------------------------- hasRecentNewCarSeen on its own

\* The most records in a ledger handed to the helper.
MaxSeen == 2

\* Ledgers whose first-seen texts may be unreadable.
SeenEntries == {SAESeen(k, ts) : k \in {"1", "2"}, ts \in Timestamps}

SeenLists == UNION {[1 .. n -> SeenEntries] : n \in 0 .. MaxSeen}

\* The saeIsFresh memo in feed mode with no feed timestamp known, over any
\* ledger and any now.
InitRecent ==
    /\ saeSeen \in SeenLists
    /\ nowMs \in Instants
    /\ recent = FALSE
    /\ pc = "call"
    /\ isOnline = TRUE
    /\ eventName = "Acceleration"
    /\ useSAERunRate = TRUE
    /\ saeLastUpdate = Null
    /\ lineLength = "0" /\ samples = <<>> /\ completions = <<>>
    /\ saeStatus = "SAE idle" /\ manualStartTs = Null
    /\ inflight = 0 /\ cancelledInflight = 0 /\ alert = Null /\ beforePlus = Null
    /\ logs = <<>> /\ carNumber = <<>> /\ off = Null
    /\ EnduranceIdle
    /\ SeenIdle
    /\ rows = <<>> /\ html = <<>> /\ carsFound = <<>>

\* recent = hasRecentNewCarSeen(saeSeen, nowMs)
CallRecent ==
    /\ pc = "call"
    /\ recent' = hasRecentNewCarSeen(saeSeen, nowMs)
    /\ pc' = "done"
    /\ UNCHANGED <<logs, carNumber, nowMs, off, enduranceVars, seenVars,
                   dynamicVars, rows, html, carsFound>>

NextRecent == CallRecent

SpecRecent == InitRecent /\ [][NextRecent]_vars

\* The records of a ledger whose first-seen text reads as a time.
Readable(seen) ==
    {i \in 1 .. Len(seen) : seen[i].firstSeenTs \in {IsoTable[ms] : ms \in Instants}}

\* The time a readable first-seen text stands for.
TimeOf(ts) == CHOOSE ms \in Instants : IsoTable[ms] = ts

\* C23: with no feed timestamp known, the feed is fresh exactly when some
\* ledger record has a readable first-seen time at most 60 s before now;
\* records with unreadable times never make it fresh, and an empty ledger
\* is never fresh.
C23_FreshFallback ==
    pc = "done" =>
        /\ recent <=> \E i \in Readable(saeSeen) :
                          nowMs - TimeOf(saeSeen[i].firstSeenTs) <= 60000
        /\ saeIsFresh <=> recent
        /\ Readable(saeSeen) = {} => ~recent
        /\ saeSeen = <<>> => ~recent

\* A ledger with an unreadable record and a readable recent one is fresh,
\* by the readable one.
C23_Witness ==
    /\ pc = "done"
    /\ recent
    /\ Len(saeSeen) = 2
    /\ Readable(saeSeen) # {}
    /\ Readable(saeSeen) # {1, 2}

\* One of the four buttons of the queue and the completions is pressed.
Press == incrementLine \/ decrementLine \/ plusOne \/ undoCompletion

CarsInLine == numberOrZero(lineLength)

\* C25: whatever buttons were pressed, the cars in line are a non-negative
\* whole number; a completion + with an event selected records exactly one
\* new completion, for that event, and lowers the cars in line by exactly
\* one, unless they were 0, and then they stay 0.
C25_QueueAndCompletion ==
    /\ [](CarsInLine >= 0 /\ lineLength = String(CarsInLine))
    /\ [][(trimName(eventName) # "" /\ plusOne) =>
              /\ Len(completions') = Len(completions) + 1
              /\ Tail(completions') = completions
              /\ Head(completions').eventName = trimName(eventName)
              /\ Cardinality({i \in 1 .. Len(completions') :
                                 completions'[i].eventName = trimName(eventName)})
                   = Len(forEvent(completions, trimName(eventName))) + 1
              /\ CarsInLine' = IF CarsInLine = 0 THEN 0 ELSE CarsInLine - 1]_vars

\* Two completions stand recorded, the newest for the selected event, and
\* the line is empty.
C25_Witness ==
    /\ trimName(eventName) # ""
    /\ Len(completions) = 2
    /\ completions[1].eventName = trimName(eventName)
    /\ lineLength = "0"
    /\ Len(samples) = 0

\* ------------------------------------ parseCarsWithResults on its own
\* Texts are sequences of characters.

Digits == {Digit[i] : i \in 1 .. 10}

Letters ==
    {"A", "B", "C", "D", "E", "F", "G", "H", "I", "J", "K", "L", "M",
     "N", "O", "P", "Q", "R", "S", "T", "U", "V", "W", "X", "Y", "Z",
     "a", "b", "c", "d", "e", "f", "g", "h", "i", "j", "k", "l", "m",
     "n", "o", "p", "q", "r", "s", "t", "u", "v", "w", "x", "y", "z"}

\* \w
isWord(c) == c \in Digits \cup Letters \cup {"_"}

\* html.replace(/<[^>]*>/g, ' '): a "<" with a ">" after it goes, up to the
\* first such ">", and a blank takes its place.
RECURSIVE stripTags(_)
stripTags(s) ==
    IF s = <<>>
    THEN <<>>
    ELSE IF Head(s) = "<" /\ \E j \in 2 .. Len(s) : s[j] = ">"
         THEN LET close == CHOOSE j \in 2 .. Len(s) :
                               /\ s[j] = ">"
                               /\ \A k \in 2 .. (j - 1) : s[k] # ">"
              IN  <<" ">> \o stripTags(SubSeq(s, close + 1, Len(s)))
         ELSE <<Head(s)>> \o stripTags(Tail(s))

\* .replace(/\s+/g, ' ')
RECURSIVE collapseSpace(_)
collapseSpace(s) ==
    IF s = <<>>
    THEN <<>>
    ELSE IF Head(s) \in WhiteSpace
         THEN <<" ">> \o collapseSpace(trimStart(s))
         ELSE <<Head(s)>> \o collapseSpace(Tail(s))

\* The character at p, or none outside the text.
charAt(t, p) == IF p \in 1 .. Len(t) THEN t[p] ELSE ""

\* \d+ from p on, taken greedily: how many digits stand there.
RECURSIVE digitRun(_, _)
digitRun(t, p) == IF charAt(t, p) \in Digits THEN 1 + digitRun(t, p + 1) ELSE 0

\* \b before the character at p
wordBoundary(t, p) == isWord(charAt(t, p - 1)) # isWord(charAt(t, p))

\* (\d+(?:\.\d+)?)\b from p on: where the match ends (the position after
\* it), 0 for no match. The whole number with its fraction is tried first,
\* then the whole number alone; an end between two digits is no boundary.
timeEnd(t, p) ==
    LET whole == digitRun(t, p)
        fraction == IF charAt(t, p + whole) = "."
                    THEN digitRun(t, p + whole + 1)
                    ELSE 0
    IN  IF whole = 0
        THEN 0
        ELSE IF fraction > 0 /\ wordBoundary(t, p + whole + 1 + fraction)
             THEN p + whole + 1 + fraction
             ELSE IF wordBoundary(t, p + whole) THEN p + whole ELSE 0

\* \s+OK\s+(\d+(?:\.\d+)?)\b from p on; in the text with its white space
\* collapsed every \s+ is one blank.
okAt(t, p) ==
    /\ charAt(t, p) = " "
    /\ charAt(t, p + 1) = "O"
    /\ charAt(t, p + 2) = "K"
    /\ charAt(t, p + 3) = " "
    /\ timeEnd(t, p + 4) > 0

\* One match of
\*   /\b(\d{1,3})\s+(\d{1,4})\s+.*?\s+OK\s+(\d+(?:\.\d+)?)\b/
\* beginning at p, or Null: the two numbers, each a whole run of digits
\* with a blank after it, then at least one character up to the first
\* " OK " that a time follows.
matchAt(t, p) ==
    LET pos == digitRun(t, p)
        carFrom == p + pos + 1
        carLen == digitRun(t, carFrom)
        rest == carFrom + carLen + 1
        oks == {e \in (rest + 1) .. Len(t) : okAt(t, e)}
    IN  IF /\ wordBoundary(t, p)
           /\ pos \in 1 .. 3
           /\ charAt(t, p + pos) = " "
           /\ carLen \in 1 .. 4
           /\ charAt(t, carFrom + carLen) = " "
           /\ oks # {}
        THEN LET e == CHOOSE e \in oks : \A o \in oks : e <= o
             IN  [carNo |-> SubSeq(t, carFrom, carFrom + carLen - 1),
                  time |-> SubSeq(t, e + 4, timeEnd(t, e + 4) - 1),
                  lastIndex |-> timeEnd(t, e + 4)]
        ELSE Null

\* Number(m[3]) of a text of digits with at most one point among them: a
\* finite number, positive when some digit is not 0.
Number(text) ==
    [finite |-> TRUE,
     positive |-> \E i \in 1 .. Len(text) : text[i] \in Digits \ {"0"}]

\* cars.add(carNo)
addToSet(cars, carNo) ==
    IF \E i \in 1 .. Len(cars) : cars[i] = carNo THEN cars ELSE Append(cars, carNo)

\* while ((m = re.exec(text))) { ... }: exec looks for the first match at
\* or after lastIndex, and the next exec goes on from that match's end.
RECURSIVE execLoop(_, _, _)
execLoop(t, lastIndex, cars) ==
    LET starts == {p \in lastIndex .. Len(t) : matchAt(t, p) # Null}
    IN  IF starts = {}
        THEN cars
        ELSE LET p == CHOOSE p \in starts : \A q \in starts : p <= q
                 m == matchAt(t, p)
                 time == Number(m.time)
             IN  execLoop(t, m.lastIndex,
                          IF time.finite /\ time.positive
                          THEN addToSet(cars, m.carNo)
                          ELSE cars)

parseCarsWithResults(page) == execLoop(collapseSpace(stripTags(page)), 1, <<>>)

\* The most rows on a page.
MaxRows == 2

OK == <<"O", "K">>

\* A result row as the leaderboard shows it: position, car number, team,
\* status and time.
Row(pos, carNo, team, status, time) ==
    [pos |-> pos, carNo |-> carNo, team |-> team, status |-> status, time |-> time]

RowsAt(i) ==
    {Row(<<Digit[i + 1]>>, c, <<"T", "e", "a", "m">>, st, tm) :
        c \in {<<"4", "2">>, <<"7">>},
        st \in {OK, <<"B", "A", "D">>},
        tm \in {<<"1", "2", ".", "3">>, <<"0">>}}

Pages == UNION {{rs \in [1 .. n -> UNION {RowsAt(i) : i \in 1 .. n}] :
                    \A i \in 1 .. n : rs[i] \in RowsAt(i)} : n \in 0 .. MaxRows}

\* A row as a table row of the page: its cells with blanks between them.
rowHtml(r) ==
    <<"<", "t", "r", ">">> \o r.pos \o <<" ">> \o r.carNo \o <<" ">> \o r.team
        \o <<" ">> \o r.status \o <<" ">> \o r.time \o <<"<", "/", "t", "r", ">">>

RECURSIVE pageHtml(_)
pageHtml(rs) == IF rs = <<>> THEN <<>> ELSE rowHtml(Head(rs)) \o pageHtml(Tail(rs))

InitParse ==
    /\ rows \in Pages
    /\ html = pageHtml(rows)
    /\ carsFound = <<>>
    /\ recent = FALSE
    /\ pc = "call"
    /\ logs = <<>> /\ carNumber = <<>> /\ off = Null /\ nowMs = 0
    /\ EnduranceIdle
    /\ SeenIdle
    /\ DynamicIdle

\* carsFound = parseCarsWithResults(html)
CallParse ==
    /\ pc = "call"
    /\ carsFound' = parseCarsWithResults(html)
    /\ pc' = "done"
    /\ UNCHANGED <<logs, carNumber, nowMs, off, enduranceVars, seenVars,
                   dynamicVars, recent, rows, html>>

NextParse == CallParse

SpecParse == InitParse /\ [][NextParse]_vars

\* The cars of the rows whose status is OK and whose time is above 0.
CarsWithResults ==
    {rows[i].carNo : i \in {j \in 1 .. Len(rows) :
                               rows[j].status = OK /\ Number(rows[j].time).positive}}

\* C26: parseCarsWithResults returns, without repeats, exactly the car
\* numbers of the result rows whose status is OK and whose time is finite
\* and above 0; a car all of whose rows are not OK, or OK with time 0, is
\* never returned, whatever rows come before or after.
C26_AsStated ==
    pc = "done" =>
        /\ {carsFound[i] : i \in 1 .. Len(carsFound)} = CarsWithResults
        /\ \A i, j \in 1 .. Len(carsFound) : carsFound[i] = carsFound[j] => i = j

\* A step in which a poll of the running effect is answered and judged
\* fresh, and the ledger gets new records in front of the ones it had, each
\* for a car it did not hold and stamped with the time of the poll.
FreshPollPrepends ==
    /\ inflight' = inflight - 1
    /\ saeStatus' = responseStatus(TRUE, clock, saeLastUpdate')
    /\ \E n \in 1 .. Len(saeSeen') :
          /\ SubSeq(saeSeen', n + 1, Len(saeSeen')) = saeSeen
          /\ \A i \in 1 .. n :
                /\ saeSeen'[i].firstSeenTs = toISOString(clock)
                /\ \A j \in 1 .. Len(saeSeen) : saeSeen[j].carNo # saeSeen'[i].carNo

\* A step in which another event is selected and the ledger is emptied.
EventChangeEmpties == eventName' # eventName /\ saeSeen' = <<>>

\* A step in which a poll is answered and judged not fresh.
StalePoll ==
    /\ inflight' = inflight - 1
    /\ saeStatus' = responseStatus(FALSE, clock, saeLastUpdate')

FetchFailed == "SAE fetch failed (network/site). Manual still works."

\* C27: the seen ledger changes only through a successful poll judged
\* fresh, which prepends the newly observed cars stamped with that poll's
\* time, or through a change of the selected event, which empties it. A
\* failed fetch, a successful poll judged not fresh, the SAE/Manual toggle,
\* a change of connectivity and a clock tick leave it as it was, and a
\* failed fetch ends in the status of the catch block.
C27_LedgerFrame ==
    /\ [][saeSeen' # saeSeen => (FreshPollPrepends \/ EventChangeEmpties)]_vars
    /\ [][(fetchFails \/ StalePoll \/ setUseSAERunRate \/ onlineChange
             \/ tickNow \/ timePasses) => saeSeen' = saeSeen]_vars
    /\ [][fetchFails => saeStatus' = FetchFailed]_vars

\* The ledger holds a car put in front of an older one by a later poll, and
\* the last fetch failed.
C27_Witness ==
    /\ Len(saeSeen) = 2
    /\ saeSeen[1].firstSeenTs # saeSeen[2].firstSeenTs
    /\ saeStatus = FetchFailed

\* A step in which a fetch completes, with a page or with an error, that
\* was started by a poll since cleaned up: the event, the mode or the
\* connectivity has changed since.
CancelledFetchCompletes == cancelledInflight' = cancelledInflight - 1

\* C28: a poll started under one setting of event, connectivity and mode
\* whose fetch completes, with success or with an error, after that setting
\* changed, changes neither the ledger nor the feed's last-update time nor
\* the status message.
C28_AsStated ==
    [][CancelledFetchCompletes =>
           /\ saeSeen' = saeSeen
           /\ saeLastUpdate' = saeLastUpdate
           /\ saeStatus' = saeStatus]_vars

\* C29: undo is the inverse of a manual completion: with an event selected,
\* a completion + followed at once by a completion - restores the
\* completions and the cars in line.
C29_AsStated ==
    [][(undoCompletion /\ beforePlus # Null) =>
           /\ completions' = beforePlus.completions
           /\ lineLength' = beforePlus.lineLength]_vars

\* C30: with an event selected for which no completion is recorded, a
\* completion - leaves the completions, the manual session start and the
\* cars in line unchanged.
C30_AsStated ==
    [][(/\ undoCompletion
        /\ trimName(eventName) # ""
        /\ Len(forEvent(completions, trimName(eventName))) = 0) =>
           /\ completions' = completions
           /\ manualStartTs' = manualStartTs
           /\ lineLength' = lineLength]_vars

====
